---- MODULE Spec2Model ----
(***************************************************************************)
(* A model of the package_template example package: the name helpers       *)
(* normalize_names / unique_normalized (function_template.py), the User    *)
(* class (class_template.py), UserRegistry / create_registry               *)
(* (module_template.py), the exceptions (exception_template.py), the       *)
(* registry fixtures of its unit tests and its example script; and of the  *)
(* paste-ready templates beside it: the counter classes, public_function   *)
(* and the dataclass User.                                                 *)
(*                                                                         *)
(* A Python str is a sequence of one-character strings.  A Python object   *)
(* whose type matters is a record [type, val]: val is the text str() gives *)
(* for it, so that an int or None can sit in a list beside a str.          *)
(***************************************************************************)
EXTENDS Integers, Sequences, FiniteSets, TLC

VARIABLES
    names,        \* the iterable handed to the current call of a name helper
    fn,           \* the name helper that was called ("none" before any call)
    names_from,   \* who built `names`: the caller, or an earlier return value
    outcome,      \* what the call did: raised / returned, and its return value
    heap,         \* the User objects made so far; a reference is an index
    reg_users,    \* UserRegistry.users: a list of references
    reg_init,     \* the users list the registry was constructed with
    reg_added,    \* the arguments of the add_user calls since, in call order
    last,         \* the last User / UserRegistry operation and what it did
    sample_users, \* the module-scoped sample_users fixture: a list of references
    touched,      \* a test has added to or changed what a test_object fixture holds
    counter,      \* a counter object, the increments given to it and what it returned
    message       \* the last public_function call: its argument and what it did

varsNames == <<names, fn, names_from, outcome>>
varsUsers == <<heap, reg_users, reg_init, reg_added, last>>
varsFixture == <<sample_users, touched>>
varsTemplates == <<counter, message>>
varsOther == <<varsFixture, varsTemplates>>
vars == <<names, fn, names_from, outcome, heap, reg_users, reg_init, reg_added, last,
          sample_users, touched, counter, message>>

----------------------------------------------------------------------------
(* Python values *)

PyStr(s) == [type |-> "str", val |-> s]
PyInt1 == [type |-> "int", val |-> <<"1">>]
PyInt42 == [type |-> "int", val |-> <<"4", "2">>]
PyNone == [type |-> "NoneType", val |-> <<"N", "o", "n", "e">>]
PyBool(b) ==
    [type |-> "bool",
     val |-> IF b THEN <<"T", "r", "u", "e">> ELSE <<"F", "a", "l", "s", "e">>]

\* str(v)
py_str(v) == v.val

\* bool(v)
py_bool(v) ==
    CASE v.type = "bool" -> v.val = <<"T", "r", "u", "e">>
      [] v.type = "str" -> Len(v.val) > 0
      [] v.type = "int" -> v.val # <<"0">>
      [] v.type = "NoneType" -> FALSE

\* isinstance(n, str)
isinstance_str(n) == n.type = "str"

----------------------------------------------------------------------------
(* str.lower and str.strip on the ASCII range *)

\* The characters str.isspace accepts, of those the model's names use.
Whitespace == {" ", "\t"}

UpperToLower ==
    "A" :> "a" @@ "B" :> "b" @@ "C" :> "c" @@ "D" :> "d" @@ "E" :> "e" @@
    "F" :> "f" @@ "G" :> "g" @@ "H" :> "h" @@ "I" :> "i" @@ "J" :> "j" @@
    "K" :> "k" @@ "L" :> "l" @@ "M" :> "m" @@ "N" :> "n" @@ "O" :> "o" @@
    "P" :> "p" @@ "Q" :> "q" @@ "R" :> "r" @@ "S" :> "s" @@ "T" :> "t" @@
    "U" :> "u" @@ "V" :> "v" @@ "W" :> "w" @@ "X" :> "x" @@ "Y" :> "y" @@
    "Z" :> "z"

lower_char(c) == IF c \in DOMAIN UpperToLower THEN UpperToLower[c] ELSE c

\* s.lower()
str_lower(s) == [k \in 1..Len(s) |-> lower_char(s[k])]

\* Whether strip removes character c: chars = None strips whitespace,
\* otherwise the characters of chars.
Stripped(c, chars) ==
    IF chars.type = "NoneType"
    THEN c \in Whitespace
    ELSE \E k \in 1..Len(chars.val) : chars.val[k] = c

\* The left scan of strip: the first index at or after i that is kept.
RECURSIVE strip_left(_, _, _)
strip_left(s, chars, i) ==
    IF i <= Len(s) /\ Stripped(s[i], chars)
    THEN strip_left(s, chars, i + 1)
    ELSE i

\* The right scan of strip: the last index at or before j, not below i - 1,
\* that is kept.
RECURSIVE strip_right(_, _, _, _)
strip_right(s, chars, i, j) ==
    IF j >= i /\ Stripped(s[j], chars)
    THEN strip_right(s, chars, i, j - 1)
    ELSE j

\* s.strip(chars)
str_strip(s, chars) ==
    LET i == strip_left(s, chars, 1)
        j == strip_right(s, chars, i, Len(s))
    IN  SubSeq(s, i, j)

----------------------------------------------------------------------------
(* function_template.py *)

\* A non-empty strip set, as a changed configuration would give.
DEFAULT_NORMALIZE_STRIP_a == <<"a">>

DEFAULT_NORMALIZE_STRIP == <<>>

\* strip_chars = DEFAULT_NORMALIZE_STRIP or None
strip_chars ==
    IF Len(DEFAULT_NORMALIZE_STRIP) > 0
    THEN PyStr(DEFAULT_NORMALIZE_STRIP)
    ELSE PyNone

\* normalize_names without the .lower() call.
normalize_names_body_nolower(validated) ==
    [k \in 1..Len(validated) |->
        PyStr(str_strip(validated[k].val, strip_chars))]

\* The body of normalize_names, as the decorator receives it (func).
normalize_names_body(validated) ==
    [k \in 1..Len(validated) |->
        PyStr(str_lower(str_strip(validated[k].val, strip_chars)))]

\* The outcome of a call: the exception raised ("none" when it returned),
\* the list returned, how many elements the guard looked at, and the
\* argument lists the wrapped function was called with.
Raise(exc, n) ==
    [raised |-> exc, returned |-> FALSE, ret |-> <<>>,
     checked |-> n, func_calls |-> <<>>]

\* A guard that drops a non-str element instead of raising.
RECURSIVE wrapper_from_skip(_, _, _)
wrapper_from_skip(iterable, i, out) ==
    IF i > Len(iterable)
    THEN [raised |-> "none", returned |-> TRUE,
          ret |-> normalize_names_body(out),
          checked |-> i - 1, func_calls |-> <<out>>]
    ELSE IF ~isinstance_str(iterable[i])
         THEN wrapper_from_skip(iterable, i + 1, out)
         ELSE wrapper_from_skip(iterable, i + 1, Append(out, iterable[i]))

\* wrapper: the loop over names from element i on, with out built so far,
\* then the call of func.
RECURSIVE wrapper_from(_, _, _)
wrapper_from(iterable, i, out) ==
    IF i > Len(iterable)
    THEN [raised |-> "none", returned |-> TRUE,
          ret |-> normalize_names_body(out),
          checked |-> i - 1, func_calls |-> <<out>>]
    ELSE IF ~isinstance_str(iterable[i])
         THEN Raise("TypeError", i)
         ELSE wrapper_from(iterable, i + 1, Append(out, iterable[i]))

wrapper(iterable) == wrapper_from(iterable, 1, <<>>)

\* @require_iterable_of_str def normalize_names
normalize_names(iterable) == wrapper(iterable)

\* The loop of unique_normalized with seen.add(name) left out.
RECURSIVE unique_from_noadd(_, _, _, _)
unique_from_noadd(normalized, i, seen, result) ==
    IF i > Len(normalized)
    THEN result
    ELSE IF normalized[i] \notin seen
         THEN unique_from_noadd(normalized, i + 1, seen,
                                Append(result, normalized[i]))
         ELSE unique_from_noadd(normalized, i + 1, seen, result)

\* The loop of unique_normalized remembering the last name seen only.
RECURSIVE unique_from_lastseen(_, _, _, _)
unique_from_lastseen(normalized, i, seen, result) ==
    IF i > Len(normalized)
    THEN result
    ELSE IF normalized[i] \notin seen
         THEN unique_from_lastseen(normalized, i + 1, {normalized[i]},
                                   Append(result, normalized[i]))
         ELSE unique_from_lastseen(normalized, i + 1, seen, result)

\* The loop of unique_normalized over the normalized list from element i on.
RECURSIVE unique_from(_, _, _, _)
unique_from(normalized, i, seen, result) ==
    IF i > Len(normalized)
    THEN result
    ELSE IF normalized[i] \notin seen
         THEN unique_from(normalized, i + 1, seen \cup {normalized[i]},
                          Append(result, normalized[i]))
         ELSE unique_from(normalized, i + 1, seen, result)

\* unique_normalized returning the normalized list as it is.
unique_normalized_nodedup(iterable) == normalize_names(iterable)

unique_normalized(iterable) ==
    LET inner == normalize_names(iterable)
    IN  IF ~inner.returned
        THEN inner
        ELSE [inner EXCEPT !.ret = unique_from(inner.ret, 1, {}, <<>>)]

----------------------------------------------------------------------------
(* The inputs of the name helpers *)

MaxLen == 3

Alice == <<"A", "l", "i", "c", "e">>
alice == <<"a", "l", "i", "c", "e">>
PaddedBob == <<" ", " ", "B", "o", "b", " ", " ">>
Bob == <<"B", "o", "b">>
bob == <<"b", "o", "b">>
TabbedName == <<"\t", "A", " ", "b", " ">>

RawValues ==
    {PyStr(Alice), PyStr(PaddedBob), PyStr(alice), PyStr(Bob),
     PyStr(TabbedName), PyStr(<<" ">>), PyStr(<<>>), PyInt42, PyNone}

RECURSIVE SeqsUpTo(_, _)
SeqsUpTo(S, n) ==
    IF n = 0
    THEN {<<>>}
    ELSE LET shorter == SeqsUpTo(S, n - 1)
         IN  shorter \cup {Append(s, x) : s \in {t \in shorter : Len(t) = n - 1}, x \in S}

Inputs == SeqsUpTo(RawValues, MaxLen)

NoOutcome == Raise("none", 0)

----------------------------------------------------------------------------
(* Calls of the name helpers *)

\* A caller holds a list; no helper has been called yet.
CallerHasList ==
    /\ names \in Inputs
    /\ fn = "none"
    /\ names_from = "caller"
    /\ outcome = NoOutcome

CallNormalizeNames(s, from) ==
    /\ names' = s
    /\ fn' = "normalize_names"
    /\ names_from' = from
    /\ outcome' = normalize_names(s)

CallUniqueNormalized(s, from) ==
    /\ names' = s
    /\ fn' = "unique_normalized"
    /\ names_from' = from
    /\ outcome' = unique_normalized(s)

\* The caller passes its list (again, if it has called before).
CallerNormalizes ==
    /\ names_from = "caller"
    /\ CallNormalizeNames(names, "caller")

CallerUniques ==
    /\ names_from = "caller"
    /\ CallUniqueNormalized(names, "caller")

\* The caller passes on the list the previous call returned.
NormalizeReturned ==
    /\ names_from = "caller"
    /\ outcome.returned
    /\ CallNormalizeNames(outcome.ret, fn)

UniqueReturned ==
    /\ names_from = "caller"
    /\ outcome.returned
    /\ CallUniqueNormalized(outcome.ret, fn)

\* No fixture has been built.
NoFixture ==
    /\ sample_users = <<>>
    /\ touched = FALSE

NoCounter == [cls |-> "none", initial |-> 0, value |-> 0, ns |-> <<>>, rets |-> <<>>]

NoMessage == [called |-> FALSE, x |-> 0, raised |-> "none", ret |-> <<>>]

\* No counter object exists and public_function has not been called.
NoTemplates ==
    /\ counter = NoCounter
    /\ message = NoMessage

NextNames ==
    \/ CallerNormalizes /\ UNCHANGED <<varsUsers, varsOther>>
    \/ CallerUniques /\ UNCHANGED <<varsUsers, varsOther>>
    \/ NormalizeReturned /\ UNCHANGED <<varsUsers, varsOther>>
    \/ UniqueReturned /\ UNCHANGED <<varsUsers, varsOther>>

----------------------------------------------------------------------------
(* class_template.py: User *)

anonymous_id == <<"a", "n", "o", "n", "y", "m", "o", "u", "s">>
Anonymous == <<"A", "n", "o", "n", "y", "m", "o", "u", "s">>
default_active == TRUE

\* User.__init__
User__init__(user_id, name, active) ==
    [type |-> "User", user_id |-> user_id, name |-> name, active |-> active]

\* User.anonymous
User_anonymous == User__init__(anonymous_id, Anonymous, FALSE)

\* data.get(key, default)
dict_get(data, key, default) ==
    IF key \in DOMAIN data THEN data[key] ELSE default

\* User.is_anonymous
User_is_anonymous(self) == self.user_id = anonymous_id

\* create_from_data with False as the default of "active".
User_create_from_data_inactive(data) ==
    User__init__(py_str(dict_get(data, "user_id", PyStr(anonymous_id))),
                 py_str(dict_get(data, "name", PyStr(Anonymous))),
                 py_bool(dict_get(data, "active", PyBool(FALSE))))

\* User.create_from_data
User_create_from_data(data) ==
    User__init__(py_str(dict_get(data, "user_id", PyStr(anonymous_id))),
                 py_str(dict_get(data, "name", PyStr(Anonymous))),
                 py_bool(dict_get(data, "active", PyBool(TRUE))))

\* User.from_dict: data["user_id"] and data["name"] raise KeyError when the
\* key is missing.
User_from_dict(data) ==
    IF "user_id" \notin DOMAIN data \/ "name" \notin DOMAIN data
    THEN [raised |-> "KeyError", obj |-> <<>>]
    ELSE [raised |-> "none",
          obj |-> <<User__init__(py_str(data["user_id"]), py_str(data["name"]),
                                 py_bool(dict_get(data, "active", PyBool(default_active))))>>]

\* User.__copy__ leaving active to the constructor's default.
User__copy__default_active(self) ==
    User__init__(self.user_id, self.name, default_active)

\* User.__copy__: the fields of the User it constructs.
User__copy__(self) == User__init__(self.user_id, self.name, self.active)

\* User.__eq__ comparing on the name as well.
User__eq__names(self, other) ==
    IF other.type # "User"
    THEN "NotImplemented"
    ELSE self.user_id = other.user_id /\ self.name = other.name

\* User.__eq__
User__eq__(self, other) ==
    IF other.type # "User"
    THEN "NotImplemented"
    ELSE self.user_id = other.user_id

\* User.__bool__
User__bool__(self) == self.active

\* User.construct
User_construct(self, activate) ==
    IF activate.type # "NoneType"
    THEN [self EXCEPT !.active = py_bool(activate)]
    ELSE self

\* User.deactivate leaving the user as it is.
User_deactivate_noop(self) == self

\* User.deactivate
User_deactivate(self) == [self EXCEPT !.active = FALSE]

\* User._ensure_active raising for the active user instead.
User_ensure_active_inverted(self) ==
    IF self.active THEN "RuntimeError" ELSE "none"

\* User._ensure_active that never raises.
User_ensure_active_pass(self) == "none"

\* User._ensure_active: the exception it raises, "none" when it returns.
User_ensure_active(self) ==
    IF ~self.active THEN "RuntimeError" ELSE "none"

\* User.to_dict without the "active" key.
User_to_dict_noactive(self) ==
    [user_id |-> PyStr(self.user_id), name |-> PyStr(self.name)]

\* User.to_dict: the dictionary it builds; a str field becomes a str value
\* and the flag a bool value.
User_to_dict(self) ==
    [user_id |-> PyStr(self.user_id), name |-> PyStr(self.name),
     active |-> PyBool(self.active)]

\* User.get_display_name
User_get_display_name(self) == self.name

\* set_display_name storing the name as it was given.
User_set_display_name_raw(self, name) ==
    [self EXCEPT !.name = IF Len(name) > 0 THEN name ELSE self.name]

\* User.set_display_name, after _ensure_active returned.
User_set_display_name(self, name) ==
    [self EXCEPT !.name = IF Len(name) > 0 THEN str_strip(name, PyNone) ELSE self.name]

----------------------------------------------------------------------------
(* Operations on User objects *)

MaxObjs == 2

One == <<"1">>
Two == <<"2">>

\* Dictionaries handed to from_dict and create_from_data.
Dicts ==
    { <<>>,
      [user_id |-> PyStr(Two), name |-> PyStr(PaddedBob)],
      [user_id |-> PyInt1, name |-> PyNone, active |-> PyStr(<<>>)],
      [name |-> PyStr(Alice), active |-> PyBool(FALSE)],
      [user_id |-> PyStr(anonymous_id)] }

Refs == 1..Len(heap)

NoArg == <<>>

Did(op, obj, arg, raised, ret) ==
    [op |-> op, obj |-> obj, arg |-> arg, raised |-> raised, ret |-> ret]

NoUsers ==
    /\ heap = <<>>
    /\ reg_users = <<>>
    /\ reg_init = <<>>
    /\ reg_added = <<>>
    /\ last = Did("none", 0, NoArg, "none", <<>>)

Allocate(u, op) ==
    /\ Len(heap) < MaxObjs
    /\ heap' = Append(heap, u)
    /\ last' = Did(op, Len(heap) + 1, NoArg, "none", <<>>)

NewUser(user_id, name, active) ==
    Allocate(User__init__(user_id, name, active), "User")

NewAnonymous == Allocate(User_anonymous, "anonymous")

CreateFromData(data) == Allocate(User_create_from_data(data), "create_from_data")

FromDict(data) ==
    LET r == User_from_dict(data)
    IN  IF r.raised = "none"
        THEN Allocate(r.obj[1], "from_dict")
        ELSE /\ last' = Did("from_dict", 0, NoArg, r.raised, <<>>)
             /\ UNCHANGED heap

Deactivate(o) ==
    /\ heap' = [heap EXCEPT ![o] = User_deactivate(heap[o])]
    /\ last' = Did("deactivate", o, NoArg, "none", <<>>)

Construct(o, activate) ==
    /\ heap' = [heap EXCEPT ![o] = User_construct(heap[o], activate)]
    /\ last' = Did("construct", o, NoArg, "none", <<>>)

SetDisplayName(o, name) ==
    LET exc == User_ensure_active(heap[o])
    IN  /\ heap' = IF exc = "none"
                   THEN [heap EXCEPT ![o] = User_set_display_name(heap[o], name)]
                   ELSE heap
        /\ last' = Did("set_display_name", o, NoArg, exc, <<>>)

\* copy.copy(o): User.__copy__ constructs the copy, a new object.
CopyUser(o) ==
    /\ Len(heap) < MaxObjs
    /\ heap' = Append(heap, User__copy__(heap[o]))
    /\ last' = Did("copy", Len(heap) + 1, <<o>>, "none", <<>>)

\* d = o.to_dict()
ToDict(o) ==
    /\ last' = Did("to_dict", o, NoArg, "none", <<User_to_dict(heap[o])>>)
    /\ UNCHANGED heap

\* User.from_dict(d), d the dictionary the to_dict call just before returned;
\* the user it was taken from is recorded as the argument.
FromDictOfToDict ==
    LET r == User_from_dict(last.ret[1])
    IN  /\ last.op = "to_dict"
        /\ IF r.raised = "none"
           THEN /\ Len(heap) < MaxObjs
                /\ heap' = Append(heap, r.obj[1])
                /\ last' = Did("from_dict", Len(heap) + 1, <<last.obj>>, "none", <<>>)
           ELSE /\ last' = Did("from_dict", 0, <<last.obj>>, r.raised, <<>>)
                /\ UNCHANGED heap

\* The names handed to set_display_name: empty, whitespace only, padded.
DisplayNames == {<<>>, <<" ">>, PaddedBob}

Registry == <<reg_users, reg_init, reg_added>>

NextUsers ==
    \/ \E active \in BOOLEAN :
          NewUser(One, Alice, active) /\ UNCHANGED <<varsNames, Registry, varsOther>>
    \/ NewAnonymous /\ UNCHANGED <<varsNames, Registry, varsOther>>
    \/ \E data \in Dicts : CreateFromData(data) /\ UNCHANGED <<varsNames, Registry, varsOther>>
    \/ \E data \in Dicts : FromDict(data) /\ UNCHANGED <<varsNames, Registry, varsOther>>
    \/ \E o \in Refs : Deactivate(o) /\ UNCHANGED <<varsNames, Registry, varsOther>>
    \/ \E o \in Refs, activate \in {PyNone, PyBool(TRUE), PyBool(FALSE)} :
          Construct(o, activate) /\ UNCHANGED <<varsNames, Registry, varsOther>>
    \/ \E o \in Refs, name \in DisplayNames :
          SetDisplayName(o, name) /\ UNCHANGED <<varsNames, Registry, varsOther>>
    \/ \E o \in Refs : CopyUser(o) /\ UNCHANGED <<varsNames, Registry, varsOther>>
    \/ \E o \in Refs : ToDict(o) /\ UNCHANGED <<varsNames, Registry, varsOther>>
    \/ FromDictOfToDict /\ UNCHANGED <<varsNames, Registry, varsOther>>

NoCall ==
    /\ names = <<>>
    /\ fn = "none"
    /\ names_from = "caller"
    /\ outcome = NoOutcome

InitUsers == NoCall /\ NoUsers /\ NoFixture /\ NoTemplates

SpecUsers == InitUsers /\ [][NextUsers]_vars
InitNames == CallerHasList /\ NoUsers /\ NoFixture /\ NoTemplates

SpecNames == InitNames /\ [][NextNames]_vars

----------------------------------------------------------------------------
(* module_template.py: create_registry and UserRegistry *)

\* create_registry storing the lower-cased name as the name too.
create_registry_users_lower(ns) ==
    [i \in 1..Len(ns) |-> User__init__(str_lower(ns[i]), str_lower(ns[i]), TRUE)]

\* create_registry: the users it builds, in order.
create_registry_users(ns) ==
    [i \in 1..Len(ns) |-> User__init__(str_lower(ns[i]), ns[i], TRUE)]

\* get_all_names listing the identifiers instead of the names.
UserRegistry_get_all_names_ids(users) ==
    normalize_names([i \in 1..Len(users) |-> PyStr(users[i].user_id)])

\* get_all_names listing the active users only.
UserRegistry_get_all_names_active(users) ==
    normalize_names(SelectSeq([i \in 1..Len(users) |-> users[i]],
                              LAMBDA u : u.active))

\* UserRegistry.get_all_names, given the users the references stand for.
UserRegistry_get_all_names(users) ==
    normalize_names([i \in 1..Len(users) |-> PyStr(users[i].name)])

\* add_user putting the new user first.
UserRegistry_add_user_front(users, user) == <<user>> \o users

\* add_user refusing a user whose identifier is already stored: the list
\* as add_user would leave it if uniqueness were enforced.
UserRegistry_add_user_unique(users, user) ==
    IF \E i \in 1..Len(users) : heap[users[i]].user_id = heap[user].user_id
    THEN users
    ELSE Append(users, user)

\* UserRegistry.add_user: the users list after the call.
UserRegistry_add_user(users, user) == Append(users, user)

----------------------------------------------------------------------------
(* Operations on a registry *)

MaxUsers == 3

\* The User objects a list of references stands for.
Deref(refs) == [i \in 1..Len(refs) |-> heap[refs[i]]]

\* UserRegistry(users=refs), refs a list the caller built for it.
ConstructRegistry(refs) ==
    /\ Len(refs) <= MaxUsers
    /\ reg_users' = refs
    /\ reg_init' = refs
    /\ reg_added' = <<>>
    /\ last' = Did("UserRegistry", 0, NoArg, "none", <<>>)
    /\ UNCHANGED heap

\* create_registry(ns)
CreateRegistryOf(ns) ==
    LET made == create_registry_users(ns)
        refs == [i \in 1..Len(ns) |-> Len(heap) + i]
    IN  /\ heap' = heap \o made
        /\ reg_users' = refs
        /\ reg_init' = refs
        /\ reg_added' = <<>>
        /\ last' = Did("create_registry", 0, ns, "none", <<>>)

\* create_registry(ns) while the heap has room for the users it builds.
CreateRegistry(ns) ==
    /\ Len(heap) + Len(ns) <= MaxObjs
    /\ CreateRegistryOf(ns)

AddUser(o) ==
    /\ Len(reg_users) < MaxUsers
    /\ reg_users' = UserRegistry_add_user(reg_users, o)
    /\ reg_added' = Append(reg_added, o)
    /\ last' = Did("add_user", o, NoArg, "none", <<>>)
    /\ UNCHANGED <<heap, reg_init>>

GetAllNames ==
    LET r == UserRegistry_get_all_names(Deref(reg_users))
    IN  /\ last' = Did("get_all_names", 0, NoArg, r.raised, r.ret)
        /\ UNCHANGED <<heap, reg_users, reg_init, reg_added>>

NextRegistry ==
    \/ \E active \in BOOLEAN :
          NewUser(One, PaddedBob, active) /\ UNCHANGED <<varsNames, Registry, varsOther>>
    \/ \E o \in Refs : Deactivate(o) /\ UNCHANGED <<varsNames, Registry, varsOther>>
    \/ \E k \in 0..Len(heap) :
          ConstructRegistry([i \in 1..k |-> i]) /\ UNCHANGED <<varsNames, varsOther>>
    \/ \E ns \in SeqsUpTo({Alice, alice}, MaxObjs) : CreateRegistry(ns) /\ UNCHANGED <<varsNames, varsOther>>
    \/ \E o \in Refs : AddUser(o) /\ UNCHANGED <<varsNames, varsOther>>
    \/ GetAllNames /\ UNCHANGED <<varsNames, varsOther>>

InitRegistry == NoCall /\ NoUsers /\ NoFixture /\ NoTemplates

SpecRegistry == InitRegistry /\ [][NextRegistry]_vars

----------------------------------------------------------------------------
(* tests/unit_test_template.py: the fixtures of the UserRegistry tests *)

Three == <<"3">>
Charlie == <<"C", "h", "a", "r", "l", "i", "e">>

\* The sample_users fixture: the users it constructs.
sample_users_fixture ==
    <<User__init__(One, Alice, default_active), User__init__(Two, Bob, default_active)>>

\* A users_copy that holds the sample users themselves.
users_copy_shared(sample, base) == sample

\* test_object: users_copy, a new list of references to the copies, which
\* are the objects allocated after the first base ones.
users_copy(sample, base) == [i \in 1..Len(sample) |-> base + i]

\* The module-scoped fixture is built once, before the first test_object.
SampleUsers ==
    /\ sample_users = <<>>
    /\ heap' = sample_users_fixture
    /\ sample_users' = [i \in 1..Len(sample_users_fixture) |-> i]
    /\ last' = Did("sample_users", 0, NoArg, "none", <<>>)
    /\ UNCHANGED <<Registry, touched>>

\* The test_object fixture of the next test.  The registry of the test
\* before and the objects only it referred to are gone by then: the heap
\* keeps the sample users, and the copies follow them.
TestObject ==
    LET base == Len(sample_users)
        copies == [i \in 1..base |-> User__copy__(heap[sample_users[i]])]
        refs == users_copy(sample_users, base)
    IN  /\ sample_users # <<>>
        /\ heap' = SubSeq(heap, 1, base) \o copies
        /\ reg_users' = refs
        /\ reg_init' = refs
        /\ reg_added' = <<>>
        /\ last' = Did("test_object", 0, NoArg, "none", <<>>)
        /\ UNCHANGED <<sample_users, touched>>

\* test_add_user: u = User(user_id="3", name="Charlie"); test_object.add_user(u)
TestAddUser ==
    LET u == Len(heap) + 1
    IN  /\ reg_init # <<>>
        /\ Len(reg_users) < MaxUsers
        /\ heap' = Append(heap, User__init__(Three, Charlie, default_active))
        /\ reg_users' = UserRegistry_add_user(reg_users, u)
        /\ reg_added' = Append(reg_added, u)
        /\ last' = Did("add_user", u, NoArg, "none", <<>>)
        /\ touched' = TRUE
        /\ UNCHANGED <<reg_init, sample_users>>

\* The users the test_object of the running test holds.
FixtureUsers == {reg_users[i] : i \in 1..Len(reg_users)}

NextFixture ==
    \/ SampleUsers /\ UNCHANGED <<varsNames, varsTemplates>>
    \/ TestObject /\ UNCHANGED <<varsNames, varsTemplates>>
    \/ TestAddUser /\ UNCHANGED <<varsNames, varsTemplates>>
    \/ GetAllNames /\ reg_init # <<>> /\ UNCHANGED <<varsNames, varsOther>>
    \/ \E o \in FixtureUsers :
          /\ Deactivate(o)
          /\ touched' = TRUE
          /\ UNCHANGED <<varsNames, Registry, sample_users, varsTemplates>>
    \/ \E o \in FixtureUsers, activate \in {PyBool(TRUE)} :
          /\ Construct(o, activate)
          /\ touched' = TRUE
          /\ UNCHANGED <<varsNames, Registry, sample_users, varsTemplates>>
    \/ \E o \in FixtureUsers, name \in {<<" ">>, Charlie} :
          /\ SetDisplayName(o, name)
          /\ touched' = TRUE
          /\ UNCHANGED <<varsNames, Registry, sample_users, varsTemplates>>

InitFixture == NoCall /\ NoUsers /\ NoFixture /\ NoTemplates

SpecFixture == InitFixture /\ [][NextFixture]_vars

----------------------------------------------------------------------------
(* examples/example_template.py: the example sections that use create_registry *)

U3 == <<"u", "3">>
PaddedEve == <<" ", " ", " ", "E", "v", "e", " ", " ", " ">>

\* The lists of names an example may hand to create_registry: lists of str.
ExampleNames == SeqsUpTo({v \in RawValues : isinstance_str(v)}, MaxLen)

\* registry = create_registry(names)
ExampleCreateRegistry ==
    /\ last.op = "none"
    /\ CreateRegistryOf([i \in 1..Len(names) |-> names[i].val])

\* registry.get_all_names()
ExampleGetAllNames ==
    /\ last.op # "none"
    /\ GetAllNames

\* u = User(user_id="u3", name="   Eve   "); registry.add_user(u)
ExampleAddEve ==
    LET u == Len(heap) + 1
    IN  /\ last.op # "none"
        /\ reg_added = <<>>
        /\ Len(reg_users) < MaxUsers
        /\ heap' = Append(heap, User__init__(U3, PaddedEve, default_active))
        /\ reg_users' = UserRegistry_add_user(reg_users, u)
        /\ reg_added' = Append(reg_added, u)
        /\ last' = Did("add_user", u, NoArg, "none", <<>>)
        /\ UNCHANGED reg_init

NextExamples ==
    \/ ExampleCreateRegistry /\ UNCHANGED <<varsNames, varsOther>>
    \/ ExampleGetAllNames /\ UNCHANGED <<varsNames, varsOther>>
    \/ ExampleAddEve /\ UNCHANGED <<varsNames, varsOther>>

InitExamples ==
    /\ names \in ExampleNames
    /\ fn = "none"
    /\ names_from = "caller"
    /\ outcome = NoOutcome
    /\ NoUsers
    /\ NoFixture
    /\ NoTemplates

SpecExamples == InitExamples /\ [][NextExamples]_vars

----------------------------------------------------------------------------
(* The counter classes of the paste-ready templates: _Sample.bump           *)
(* (unit_test_template.py), PublicClass.increment (module_template.py) and *)
(* DemoItem.bump (example_template.py), which have one and the same body.  *)

MaxBumps == 3

\* The default of the parameter n.
default_n == 1

\* bump that returns the value it found.
bump_returns_old(self, n) ==
    [self |-> [self EXCEPT !.value = self.value + n], ret |-> self.value]

\* self.value += n; return self.value: the object after the call and the
\* value returned.  A Python int has no upper or lower limit.
bump(self, n) ==
    LET after == [self EXCEPT !.value = self.value + n]
    IN  [self |-> after, ret |-> after.value]

\* The objects the templates construct: the class and the starting value.
Counters ==
    { <<"_Sample", 0>>, <<"_Sample", 1>>, <<"_Sample", 2>>,
      <<"DemoItem", 1>>, <<"DemoItem", 10>>, <<"DemoItem", 0>>,
      <<"PublicClass", 0>> }

\* The increments the templates pass, by name or as the default.
Increments == {0 - 1, 0, 2, 3}

NewCounter(cls, value) ==
    /\ counter.cls = "none"
    /\ counter' = [cls |-> cls, initial |-> value, value |-> value,
                   ns |-> <<>>, rets |-> <<>>]

\* obj.bump(*args) / obj.increment(*args): args holds n, or nothing.
Bump(args) ==
    LET n == IF args = <<>> THEN default_n ELSE args[1]
        r == bump(counter, n)
    IN  /\ counter.cls # "none"
        /\ Len(counter.ns) < MaxBumps
        /\ counter' = [r.self EXCEPT !.ns = Append(counter.ns, n),
                                     !.rets = Append(counter.rets, r.ret)]

NextCounter ==
    \/ \E c \in Counters :
          NewCounter(c[1], c[2]) /\ UNCHANGED <<varsNames, varsUsers, varsFixture, message>>
    \/ \E args \in {<<>>} \cup {<<n>> : n \in Increments} :
          Bump(args) /\ UNCHANGED <<varsNames, varsUsers, varsFixture, message>>

InitCounter == NoCall /\ NoUsers /\ NoFixture /\ NoTemplates

SpecCounter == InitCounter /\ [][NextCounter]_vars

----------------------------------------------------------------------------
(* module_template.py of the paste-ready templates: public_function *)

MaxX == 120

DigitChars == <<"0", "1", "2", "3", "4", "5", "6", "7", "8", "9">>

\* The decimal digits of a non-negative int, most significant first.
RECURSIVE int_digits(_)
int_digits(x) ==
    IF x < 10
    THEN <<DigitChars[x + 1]>>
    ELSE int_digits(x \div 10) \o <<DigitChars[(x % 10) + 1]>>

\* format(x, ""), what an f-string puts for {x} when x is an int.
format_int(x) ==
    IF x < 0 THEN <<"-">> \o int_digits(0 - x) ELSE int_digits(x)

\* _validate_inputs refusing zero as well.
validate_inputs_positive(x) == IF x <= 0 THEN "ValueError" ELSE "none"

\* _validate_inputs: the exception it raises, "none" when it returns.
validate_inputs(x) == IF x < 0 THEN "ValueError" ELSE "none"

\* public_function: the exception raised, or the message returned.
public_function(x) ==
    LET exc == validate_inputs(x)
    IN  IF exc # "none"
        THEN [raised |-> exc, ret |-> <<>>]
        ELSE [raised |-> "none",
              ret |-> <<"v", "a", "l", "u", "e", "=">> \o format_int(x)]

PublicFunction(x) ==
    LET r == public_function(x)
    IN  message' = [called |-> TRUE, x |-> x, raised |-> r.raised, ret |-> r.ret]

NextMessage ==
    \E x \in (0 - MaxX)..MaxX :
        PublicFunction(x) /\ UNCHANGED <<varsNames, varsUsers, varsFixture, counter>>

InitMessage == NoCall /\ NoUsers /\ NoFixture /\ NoTemplates

SpecMessage == InitMessage /\ [][NextMessage]_vars

----------------------------------------------------------------------------
(* class_template.py of the paste-ready templates: the dataclass User *)

\* The __init__ that @dataclass generates from the three fields.
DataUser__init__(user_id, name, active) ==
    [type |-> "dataclass User", user_id |-> user_id, name |-> name, active |-> active]

\* User.anonymous
DataUser_anonymous == DataUser__init__(anonymous_id, Anonymous, FALSE)

\* The __eq__ that @dataclass generates (eq is left at its default, True):
\* for two objects of the class, the tuples of their fields are compared.
DataUser__eq__(self, other) ==
    IF other.type # self.type
    THEN "NotImplemented"
    ELSE <<self.user_id, self.name, self.active>>
             = <<other.user_id, other.name, other.active>>

\* User.deactivate
DataUser_deactivate(self) == [self EXCEPT !.active = FALSE]

NewDataUser(user_id, name, active) ==
    Allocate(DataUser__init__(user_id, name, active), "User")

NewDataAnonymous == Allocate(DataUser_anonymous, "anonymous")

DataDeactivate(o) ==
    /\ heap' = [heap EXCEPT ![o] = DataUser_deactivate(heap[o])]
    /\ last' = Did("deactivate", o, NoArg, "none", <<>>)

NextDataclass ==
    \/ \E user_id \in {One, Two}, name \in {Alice, Bob}, active \in BOOLEAN :
          NewDataUser(user_id, name, active) /\ UNCHANGED <<varsNames, Registry, varsOther>>
    \/ NewDataAnonymous /\ UNCHANGED <<varsNames, Registry, varsOther>>
    \/ \E o \in Refs : DataDeactivate(o) /\ UNCHANGED <<varsNames, Registry, varsOther>>

InitDataclass == NoCall /\ NoUsers /\ NoFixture /\ NoTemplates

SpecDataclass == InitDataclass /\ [][NextDataclass]_vars

----------------------------------------------------------------------------
(* exception_template.py: TemplateError and ValidationError *)

\* The base of each exception class: the two class statements of the
\* package, and the built-in classes its operations raise.
ExceptionBases ==
    [TemplateError |-> "Exception",
     ValidationError |-> "TemplateError",
     TypeError |-> "Exception",
     RuntimeError |-> "Exception",
     KeyError |-> "LookupError",
     LookupError |-> "Exception",
     Exception |-> "BaseException"]

\* issubclass(cls, base)
RECURSIVE issubclass(_, _)
issubclass(cls, base) ==
    \/ cls = base
    \/ cls \in DOMAIN ExceptionBases /\ issubclass(ExceptionBases[cls], base)

\* An except clause for the class handler catches an exception of class exc.
ExceptCatches(handler, exc) == issubclass(exc, handler)

\* ValidationError.__init__
ValidationError__init__(msg, value, args) ==
    [type |-> "ValidationError", args |-> <<msg>> \o args, value |-> value]

----------------------------------------------------------------------------
(* The read-only calls among the operations that change things: a caller   *)
(* holds a list of names, passes it to the name helpers and to             *)
(* create_registry, lists the registry, and changes the registry and its   *)
(* users.                                                                  *)

\* The lists the caller may hold.
CallerLists == SeqsUpTo({PyStr(Alice), PyStr(PaddedBob)}, MaxObjs)

NextReadOnly ==
    \/ CallerNormalizes /\ UNCHANGED <<varsUsers, varsOther>>
    \/ CallerUniques /\ UNCHANGED <<varsUsers, varsOther>>
    \/ ExampleCreateRegistry /\ UNCHANGED <<varsNames, varsOther>>
    \/ ExampleGetAllNames /\ UNCHANGED <<varsNames, varsOther>>
    \/ ExampleAddEve /\ UNCHANGED <<varsNames, varsOther>>
    \/ \E o \in Refs : Deactivate(o) /\ UNCHANGED <<varsNames, Registry, varsOther>>
    \/ \E o \in Refs : SetDisplayName(o, Charlie) /\ UNCHANGED <<varsNames, Registry, varsOther>>

InitReadOnly ==
    /\ names \in CallerLists
    /\ fn = "none"
    /\ names_from = "caller"
    /\ outcome = NoOutcome
    /\ NoUsers
    /\ NoFixture
    /\ NoTemplates

SpecReadOnly == InitReadOnly /\ [][NextReadOnly]_vars

----------------------------------------------------------------------------
(* Properties of the name helpers *)

AllStr(s) == \A i \in 1..Len(s) : s[i].type = "str"

Range(s) == {s[i] : i \in 1..Len(s)}

\* r is s without its leading and trailing whitespace, in lower case:
\* s is a whitespace characters, a core that neither starts nor ends with
\* whitespace, and b whitespace characters, and r is the core with every
\* upper-case letter replaced by its lower-case letter.
TrimmedLowerOf(r, s) ==
    \E a, b \in 0..Len(s) :
        /\ a + b <= Len(s)
        /\ \A k \in 1..a : s[k] \in Whitespace
        /\ \A k \in (Len(s) - b + 1)..Len(s) : s[k] \in Whitespace
        /\ a + b < Len(s) => s[a + 1] \notin Whitespace /\ s[Len(s) - b] \notin Whitespace
        /\ Len(r) = Len(s) - a - b
        /\ \A k \in 1..Len(r) :
              IF s[a + k] \in DOMAIN UpperToLower
              THEN r[k] = UpperToLower[s[a + k]]
              ELSE r[k] = s[a + k]

\* The least index at which v occurs in s.
FirstIndex(s, v) == CHOOSE i \in 1..Len(s) : s[i] = v /\ \A j \in 1..(i - 1) : s[j] # v

\* C1: normalize_names is idempotent: called on the list an earlier
\* normalize_names call returned, it returns that list again.
C1_NormalizeIdempotent ==
    (fn = "normalize_names" /\ names_from = "normalize_names") =>
        /\ outcome.returned
        /\ outcome.ret = names

\* The second normalisation of a list that the first one had to change.
C1_Witness ==
    /\ fn = "normalize_names"
    /\ names_from = "normalize_names"
    /\ outcome.returned
    /\ names = <<PyStr(alice), PyStr(bob), PyStr(<<"a", " ", "b">>)>>

\* C2: normalize_names preserves order and length: for a list of strings
\* the result has the length of the input and its i-th element is the i-th
\* input without leading and trailing whitespace, lower-cased.
C2_NormalizeElementwise ==
    (fn = "normalize_names" /\ AllStr(names)) =>
        /\ outcome.returned
        /\ Len(outcome.ret) = Len(names)
        /\ \A i \in 1..Len(names) :
              /\ outcome.ret[i].type = "str"
              /\ TrimmedLowerOf(outcome.ret[i].val, names[i].val)

\* A call whose input needs trimming, case folding and neither, at
\* different positions.
C2_Witness ==
    /\ fn = "normalize_names"
    /\ names_from = "caller"
    /\ names = <<PyStr(TabbedName), PyStr(alice), PyStr(PaddedBob)>>
    /\ outcome.ret = <<PyStr(<<"a", " ", "b">>), PyStr(alice), PyStr(bob)>>

\* C3: unique_normalized keeps the first occurrence only: the result holds
\* no value twice, holds exactly the values of normalize_names(names), and
\* lists them in the order of their first index in normalize_names(names).
C3_UniqueFirstOccurrence ==
    (fn = "unique_normalized" /\ AllStr(names)) =>
        LET n == normalize_names(names).ret
            u == outcome.ret
        IN  /\ outcome.returned
            /\ \A i, j \in 1..Len(u) : u[i] = u[j] => i = j
            /\ Range(u) = Range(n)
            /\ \A i, j \in 1..Len(u) :
                  i < j => FirstIndex(n, u[i]) < FirstIndex(n, u[j])

\* A call in which a value comes back after another one came in between.
C3_Witness ==
    /\ fn = "unique_normalized"
    /\ names = <<PyStr(Alice), PyStr(PaddedBob), PyStr(alice)>>
    /\ Len(outcome.ret) < Len(names)

\* C4: a non-str element fails validation: with one at any position both
\* helpers raise TypeError and return nothing; the wrapped function is
\* called only once every element has been checked, and for an all-str
\* input exactly once, with the elements in their original order.
C4_NonStrRaisesTypeError ==
    (fn \in {"normalize_names", "unique_normalized"}) =>
        /\ ~AllStr(names) =>
              /\ outcome.raised = "TypeError"
              /\ ~outcome.returned
              /\ outcome.ret = <<>>
              /\ outcome.func_calls = <<>>
        /\ outcome.func_calls # <<>> => outcome.checked = Len(names)
        /\ AllStr(names) =>
              /\ outcome.raised = "none"
              /\ outcome.func_calls = <<names>>

\* A call whose only non-str element is the last one.
C4_Witness ==
    /\ fn = "unique_normalized"
    /\ names = <<PyStr(Alice), PyStr(Bob), PyNone>>
    /\ outcome.raised = "TypeError"

ExampleInput == <<PyStr(Alice), PyStr(PaddedBob), PyStr(alice)>>

\* C5: for ["Alice", "  Bob  ", "alice"] normalize_names returns
\* ["alice", "bob", "alice"] and unique_normalized returns ["alice", "bob"].
C5_Example ==
    names = ExampleInput =>
        /\ fn = "normalize_names" =>
              /\ outcome.returned
              /\ outcome.ret = <<PyStr(alice), PyStr(bob), PyStr(alice)>>
        /\ fn = "unique_normalized" =>
              /\ outcome.returned
              /\ outcome.ret = <<PyStr(alice), PyStr(bob)>>

\* unique_normalized has been called on the example.
C5_Witness ==
    /\ names = ExampleInput
    /\ fn = "unique_normalized"
    /\ names_from = "caller"
    /\ outcome.returned

----------------------------------------------------------------------------
(* Properties of User *)

\* C6: equality of users depends on the identifier alone: two users are
\* equal exactly when their user_id values are equal, whatever their names
\* and active flags, and no operation changes whether two existing users
\* are equal.
C6_EqualityById ==
    /\ [](\A a, b \in Refs :
            User__eq__(heap[a], heap[b]) = (heap[a].user_id = heap[b].user_id))
    /\ [][\A a, b \in Refs :
            User__eq__(heap'[a], heap'[b]) = User__eq__(heap[a], heap[b])]_vars

\* Two equal users with different names and flags, one of them just renamed.
C6_Witness ==
    \E a, b \in Refs :
        /\ a # b
        /\ User__eq__(heap[a], heap[b]) = TRUE
        /\ heap[a].name # heap[b].name
        /\ heap[a].active # heap[b].active
        /\ last.op = "set_display_name"
        /\ last.obj = a
        /\ last.raised = "none"
        /\ heap[a].name = Bob

\* C7: truthiness of a user is its active flag in every reachable state:
\* active is a boolean, bool(user) is True exactly when it is True, and a
\* user is falsy right after deactivate().
C7_TruthinessIsActive ==
    /\ \A o \in Refs :
          /\ heap[o].active \in BOOLEAN
          /\ (User__bool__(heap[o]) = TRUE) <=> (heap[o].active = TRUE)
    /\ last.op = "deactivate" => User__bool__(heap[last.obj]) = FALSE

\* A user made truthy by construct(activate=True) beside one just deactivated.
C7_Witness ==
    /\ last.op = "deactivate"
    /\ User__bool__(heap[last.obj]) = FALSE
    /\ \E o \in Refs : heap[o].user_id = anonymous_id /\ User__bool__(heap[o]) = TRUE

----------------------------------------------------------------------------
(* Properties of UserRegistry *)

\* s and t differ at most in the case of their letters.
SameButCase(s, t) ==
    /\ Len(s) = Len(t)
    /\ \A k \in 1..Len(s) :
          \/ s[k] = t[k]
          \/ s[k] \in DOMAIN UpperToLower /\ UpperToLower[s[k]] = t[k]
          \/ t[k] \in DOMAIN UpperToLower /\ UpperToLower[t[k]] = s[k]

\* C8: add_user appends: the users list is the list the registry was
\* constructed with, followed by the arguments of the add_user calls made
\* since, in call order.
C8_AddUserAppends ==
    reg_users = reg_init \o reg_added

\* Two add_user calls on a registry constructed with a non-empty list.
C8_Witness ==
    /\ last.op = "add_user"
    /\ Len(reg_init) >= 1
    /\ Len(reg_added) >= 2
    /\ reg_added[1] # reg_added[2]

\* C9: get_all_names returns one normalized name per stored user, in
\* storage order: the result has the length of the users list and its i-th
\* element is the i-th user's name trimmed and lower-cased, inactive users
\* and users added after construction included.
C9_GetAllNamesPerUser ==
    last.op = "get_all_names" =>
        /\ last.raised = "none"
        /\ Len(last.ret) = Len(reg_users)
        /\ \A i \in 1..Len(reg_users) :
              /\ last.ret[i].type = "str"
              /\ TrimmedLowerOf(last.ret[i].val, heap[reg_users[i]].name)

\* A listing of a registry that holds an inactive user added by add_user,
\* whose name needed trimming, after an active one.
C9_Witness ==
    /\ last.op = "get_all_names"
    /\ Len(reg_init) >= 1
    /\ Len(reg_added) >= 1
    /\ heap[reg_users[1]].active
    /\ ~heap[reg_users[Len(reg_users)]].active
    /\ heap[reg_users[Len(reg_users)]].name = PaddedBob
    /\ last.ret[Len(reg_users)] = PyStr(bob)

\* C10: identifier uniqueness is not enforced: add_user of a user equal to
\* one already stored succeeds and leaves both in the list, get_all_names
\* lists one name per entry, and create_registry stores one user per name,
\* names that differ only in case getting the same user_id.
C10_UniquenessNotEnforced ==
    /\ last.op = "add_user" =>
          LET before == reg_init \o SubSeq(reg_added, 1, Len(reg_added) - 1)
          IN  (\E i \in 1..Len(before) :
                  User__eq__(heap[before[i]], heap[last.obj]) = TRUE) =>
                    /\ last.raised = "none"
                    /\ reg_users = Append(before, last.obj)
    /\ last.op = "get_all_names" => Len(last.ret) = Len(reg_users)
    /\ last.op = "create_registry" =>
          /\ last.raised = "none"
          /\ Len(reg_users) = Len(last.arg)
          /\ \A i, j \in 1..Len(reg_users) :
                /\ heap[reg_users[i]].name = last.arg[i]
                /\ i # j => reg_users[i] # reg_users[j]
                /\ SameButCase(last.arg[i], last.arg[j]) =>
                      heap[reg_users[i]].user_id = heap[reg_users[j]].user_id

\* A listing of a registry that create_registry built from "Alice" and
\* "alice" and to which an equal user was added again.
C10_Witness ==
    /\ last.op = "get_all_names"
    /\ Len(reg_init) = 2
    /\ heap[reg_init[1]].name = Alice
    /\ heap[reg_init[2]].name = alice
    /\ heap[reg_init[1]].user_id = alice
    /\ User__eq__(heap[reg_init[1]], heap[reg_init[2]]) = TRUE
    /\ Len(reg_added) = 1
    /\ User__eq__(heap[reg_added[1]], heap[reg_init[1]]) = TRUE
    /\ last.ret = <<PyStr(alice), PyStr(alice), PyStr(alice)>>

----------------------------------------------------------------------------
(* Properties of the operations that change a User *)

\* The step is a call of op on the object o.
Called(op, o) == last'.op = op /\ last'.obj = o

\* C11: set_display_name on an inactive user raises RuntimeError and
\* leaves the user's user_id, name and active as they were; on an active
\* user it does not raise.
C11_InactiveRenameRaises ==
    [][\A o \in Refs :
          Called("set_display_name", o) =>
              IF heap[o].active
              THEN last'.raised = "none"
              ELSE /\ last'.raised = "RuntimeError"
                   /\ heap'[o].user_id = heap[o].user_id
                   /\ heap'[o].name = heap[o].name
                   /\ heap'[o].active = heap[o].active]_vars

\* A rename refused on a user that an earlier rename had succeeded on.
C11_Witness ==
    /\ last.op = "set_display_name"
    /\ last.raised = "RuntimeError"
    /\ ~heap[last.obj].active
    /\ heap[last.obj].name = Bob
    /\ heap[last.obj].user_id = One

----------------------------------------------------------------------------
(* Properties of the registry fixtures *)

\* C13: the registry fixtures are isolated from the shared test data:
\* whatever the tests before it added to their registries or changed on
\* their registries' users, sample_users holds its two original users,
\* User("1", "Alice") and User("2", "Bob"), both active, and a test_object
\* just built holds exactly two users, which are copies of them and not the
\* sample users themselves.
C13_FixturesIsolated ==
    /\ sample_users # <<>> =>
          /\ Len(sample_users) = 2
          /\ heap[sample_users[1]] = User__init__(One, Alice, TRUE)
          /\ heap[sample_users[2]] = User__init__(Two, Bob, TRUE)
    /\ last.op = "test_object" =>
          /\ Len(reg_users) = 2
          /\ reg_users[1] # reg_users[2]
          /\ \A i \in 1..2 :
                /\ reg_users[i] \notin Range(sample_users)
                /\ heap[reg_users[i]] = heap[sample_users[i]]

\* A test_object built after a test that added to or changed its own.
C13_Witness ==
    /\ last.op = "test_object"
    /\ touched
    /\ Len(reg_users) = 2

----------------------------------------------------------------------------
(* Properties of create_registry *)

eve == <<"e", "v", "e">>

\* C14: for every list of strings names, create_registry(names) holds
\* exactly one user per name, in input order, each with the given name and
\* active, and its get_all_names() is what normalize_names(names) returns;
\* for the empty list the listing is empty, and after a user named
\* "   Eve   " is added to that registry the listing is ["eve"].
C14_CreateRegistryKeepsNames ==
    LET normalized == normalize_names(names)
    IN  last.op # "none" =>
          /\ Len(reg_init) = Len(names)
          /\ \A i \in 1..Len(reg_init) :
                /\ heap[reg_init[i]].name = names[i].val
                /\ heap[reg_init[i]].active = TRUE
                /\ \A j \in 1..Len(reg_init) : i # j => reg_init[i] # reg_init[j]
          /\ (last.op = "get_all_names" /\ reg_added = <<>>) =>
                /\ last.raised = "none"
                /\ normalized.returned
                /\ last.ret = normalized.ret
                /\ names = <<>> => last.ret = <<>>
          /\ (last.op = "get_all_names" /\ reg_added # <<>>) =>
                /\ last.ret = Append(normalized.ret, PyStr(eve))
                /\ names = <<>> => last.ret = <<PyStr(eve)>>

\* The listing, after "   Eve   " was added, of a registry created from
\* the empty list.
C14_Witness ==
    /\ names = <<>>
    /\ last.op = "get_all_names"
    /\ Len(reg_added) = 1
    /\ heap[reg_added[1]].name = PaddedEve
    /\ last.ret = <<PyStr(eve)>>

----------------------------------------------------------------------------
(* Properties of the counter classes *)

RECURSIVE Sum(_)
Sum(s) == IF s = <<>> THEN 0 ELSE s[1] + Sum(Tail(s))

\* C15: bump / increment add and report: the k-th call returns the value
\* the object held before it plus its increment n (1 when none is given;
\* zero and negative n included) and stores it, so the stored value is the
\* initial value plus the sum of all increments given so far; on an object
\* that starts at 0 the first bump(delta) returns delta.
C15_BumpAddsAndReports ==
    /\ Len(counter.rets) = Len(counter.ns)
    /\ \A k \in 1..Len(counter.ns) :
          LET before == counter.initial + Sum(SubSeq(counter.ns, 1, k - 1))
          IN  counter.rets[k] = before + counter.ns[k]
    /\ counter.value = counter.initial + Sum(counter.ns)
    /\ Len(counter.ns) >= 1 =>
          counter.value = counter.rets[Len(counter.rets)]
    /\ (counter.initial = 0 /\ Len(counter.ns) >= 1) =>
          counter.rets[1] = counter.ns[1]

\* A fresh _Sample bumped by -1, by 0 and then without argument.
C15_Witness ==
    /\ counter.cls = "_Sample"
    /\ counter.initial = 0
    /\ counter.ns = <<0 - 1, 0, default_n>>
    /\ counter.rets = <<0 - 1, 0 - 1, 0>>
    /\ counter.value = 0

----------------------------------------------------------------------------
(* Properties of public_function *)

DigitValue ==
    "0" :> 0 @@ "1" :> 1 @@ "2" :> 2 @@ "3" :> 3 @@ "4" :> 4 @@
    "5" :> 5 @@ "6" :> 6 @@ "7" :> 7 @@ "8" :> 8 @@ "9" :> 9

\* The number a sequence of decimal digits denotes.
RECURSIVE DecimalValue(_)
DecimalValue(s) ==
    IF s = <<>>
    THEN 0
    ELSE 10 * DecimalValue(SubSeq(s, 1, Len(s) - 1)) + DigitValue[s[Len(s)]]

\* s is the decimal numeral of the non-negative integer x: digits only, no
\* leading zero except for 0 itself.
NumeralOf(s, x) ==
    /\ Len(s) >= 1
    /\ \A k \in 1..Len(s) : s[k] \in DOMAIN DigitValue
    /\ Len(s) > 1 => s[1] # "0"
    /\ DecimalValue(s) = x

\* C16: public_function(x) raises ValueError for every negative integer x
\* and produces no message; for every non-negative x it raises nothing and
\* returns the text "value=" followed by the decimal numeral of x.
C16_PublicFunctionValidates ==
    message.called =>
        IF message.x < 0
        THEN /\ message.raised = "ValueError"
             /\ message.ret = <<>>
        ELSE /\ message.raised = "none"
             /\ Len(message.ret) > 6
             /\ SubSeq(message.ret, 1, 6) = <<"v", "a", "l", "u", "e", "=">>
             /\ NumeralOf(SubSeq(message.ret, 7, Len(message.ret)), message.x)

\* public_function(0) returned "value=0".
C16_Witness ==
    /\ message.called
    /\ message.x = 0
    /\ message.raised = "none"
    /\ message.ret = <<"v", "a", "l", "u", "e", "=", "0">>

----------------------------------------------------------------------------
(* Properties of the dataclass User *)

\* C17: the dataclass User follows the equality contract of the toy user
\* record: two such users are equal exactly when their user_id values are
\* equal, whatever their name and active fields.
C17_DataclassEqualityById ==
    \A a, b \in Refs :
        (DataUser__eq__(heap[a], heap[b]) = TRUE) <=> (heap[a].user_id = heap[b].user_id)

----------------------------------------------------------------------------
(* Properties of copying a User *)

\* C18: copy.copy of a user yields a distinct instance of the same class
\* with the same user_id, name and active; and an operation changes the
\* fields of no object but the one it is called on, so that deactivate,
\* construct and set_display_name on the copy leave the original as it
\* was, and the other way round.
C18_CopyIsIndependent ==
    /\ [](last.op = "copy" =>
            LET c == last.obj
                o == last.arg[1]
            IN  /\ c # o
                /\ heap[c].type = heap[o].type
                /\ heap[c].user_id = heap[o].user_id
                /\ heap[c].name = heap[o].name
                /\ heap[c].active = heap[o].active)
    /\ [][\A o \in Refs :
            heap'[o] # heap[o] =>
                /\ last'.obj = o
                /\ last'.op \in {"deactivate", "construct", "set_display_name"}]_vars

\* A copy of a user that had been renamed and then deactivated.
C18_Witness ==
    /\ last.op = "copy"
    /\ heap[last.arg[1]].user_id = One
    /\ heap[last.arg[1]].name = Bob
    /\ ~heap[last.arg[1]].active
    /\ heap[last.obj] = heap[last.arg[1]]

----------------------------------------------------------------------------
(* Properties of the exceptions *)

\* C19: TemplateError is the base of every error of the package: a handler
\* for TemplateError catches ValidationError, which keeps the offending
\* value in its value attribute, and every error an operation of the
\* package raises, the validation failure of normalize_names and the
\* inactive-user failure of set_display_name among them.
C19_TemplateErrorCatchesAll ==
    /\ ExceptCatches("TemplateError", "ValidationError")
    /\ \A v \in RawValues :
          ValidationError__init__(<<"b", "a", "d">>, v, <<>>).value = v
    /\ outcome.raised # "none" => ExceptCatches("TemplateError", outcome.raised)
    /\ last.raised # "none" => ExceptCatches("TemplateError", last.raised)

----------------------------------------------------------------------------
(* Properties of the display name *)

\* r is s without its leading and trailing whitespace.
TrimmedOf(r, s) ==
    \E a, b \in 0..Len(s) :
        /\ a + b <= Len(s)
        /\ \A k \in 1..a : s[k] \in Whitespace
        /\ \A k \in (Len(s) - b + 1)..Len(s) : s[k] \in Whitespace
        /\ a + b < Len(s) => s[a + 1] \notin Whitespace /\ s[Len(s) - b] \notin Whitespace
        /\ r = SubSeq(s, a + 1, Len(s) - b)

\* C20: get_display_name returns the name last stored: the name given to
\* the constructor until a set_display_name succeeds; a set_display_name
\* that succeeds with a non-empty argument stores the argument without its
\* leading and trailing whitespace (the empty name for a whitespace-only
\* argument), with the empty argument it leaves the name as it was, and a
\* refused one leaves it as it was; set_display_name never changes user_id
\* or active, and no other operation changes what get_display_name returns.
C20_DisplayNameIsLastStored ==
    [][/\ \A o \in Refs :
             IF Called("set_display_name", o)
             THEN \A name \in DisplayNames :
                      SetDisplayName(o, name) =>
                          LET got == User_get_display_name(heap'[o])
                          IN  /\ heap'[o].user_id = heap[o].user_id
                              /\ heap'[o].active = heap[o].active
                              /\ IF last'.raised = "none" /\ name # <<>>
                                 THEN TrimmedOf(got, name)
                                 ELSE got = User_get_display_name(heap[o])
             ELSE User_get_display_name(heap'[o]) = User_get_display_name(heap[o])
       /\ last'.op = "User" =>
             \A active \in BOOLEAN :
                 NewUser(One, Alice, active) =>
                     User_get_display_name(heap'[Len(heap')]) = Alice]_vars

\* A user whose name a whitespace-only argument has made empty.
C20_Witness ==
    /\ last.op = "set_display_name"
    /\ last.raised = "none"
    /\ User_get_display_name(heap[last.obj]) = <<>>
    /\ heap[last.obj].user_id = One
    /\ heap[last.obj].active

----------------------------------------------------------------------------
(* Properties of to_dict and from_dict *)

\* C21: to_dict and from_dict round-trip: for every user u, whose user_id
\* and name are strings and whose active is a boolean, from_dict(u.to_dict())
\* does not raise and gives a user with the same user_id, name and active,
\* equal to u, whose to_dict() is u.to_dict(); and to_dict changes no user.
C21_DictRoundTrip ==
    /\ [](/\ \A o \in Refs :
                LET r == User_from_dict(User_to_dict(heap[o]))
                IN  /\ r.raised = "none"
                    /\ r.obj[1].user_id = heap[o].user_id
                    /\ r.obj[1].name = heap[o].name
                    /\ r.obj[1].active = heap[o].active
                    /\ User__eq__(r.obj[1], heap[o]) = TRUE
                    /\ User_to_dict(r.obj[1]) = User_to_dict(heap[o])
           /\ (last.op = "from_dict" /\ last.arg # NoArg) =>
                /\ last.raised = "none"
                /\ last.obj # last.arg[1]
                /\ heap[last.obj].user_id = heap[last.arg[1]].user_id
                /\ heap[last.obj].name = heap[last.arg[1]].name
                /\ heap[last.obj].active = heap[last.arg[1]].active
                /\ User__eq__(heap[last.obj], heap[last.arg[1]]) = TRUE)
    /\ [][last'.op = "to_dict" => heap' = heap]_vars

\* from_dict of the dictionary of an inactive user whose name is empty.
C21_Witness ==
    /\ last.op = "from_dict"
    /\ last.arg # NoArg
    /\ heap[last.arg[1]].name = <<>>
    /\ ~heap[last.arg[1]].active
    /\ heap[last.obj] = heap[last.arg[1]]

----------------------------------------------------------------------------
(* Properties of the two dictionary constructors *)

\* The text str() gives for the value under key, and whether bool() of it
\* is True, for a key the dictionary has.
TextAt(data, key) == data[key].val
TruthAt(data, key) ==
    CASE data[key].type = "bool" -> data[key] = PyBool(TRUE)
      [] data[key].type = "NoneType" -> FALSE
      [] OTHER -> data[key].val \notin {<<>>, <<"0">>}

\* C22: a missing key is handled differently by the two dictionary
\* constructors.  create_from_data never raises: a missing user_id becomes
\* "anonymous", a missing name "Anonymous" and a missing active True, so
\* that the user made from the empty dictionary is anonymous by
\* is_anonymous and yet active and truthy, unlike User.anonymous(), which
\* is inactive.  from_dict raises and creates no user when user_id or name
\* is missing, and defaults only a missing active, to True.
C22_MissingKeys ==
    /\ [](/\ User_is_anonymous(User_anonymous)
           /\ ~User_anonymous.active
           /\ last.op = "anonymous" =>
                User_is_anonymous(heap[last.obj]) /\ User__bool__(heap[last.obj]) = FALSE)
    /\ [][/\ last'.op = "create_from_data" =>
              \A data \in Dicts :
                  CreateFromData(data) =>
                      LET u == heap'[Len(heap')]
                      IN  /\ last'.raised = "none"
                          /\ Len(heap') = Len(heap) + 1
                          /\ u.user_id = IF "user_id" \in DOMAIN data
                                         THEN TextAt(data, "user_id") ELSE anonymous_id
                          /\ u.name = IF "name" \in DOMAIN data
                                      THEN TextAt(data, "name") ELSE Anonymous
                          /\ u.active = IF "active" \in DOMAIN data
                                        THEN TruthAt(data, "active") ELSE TRUE
                          /\ data = <<>> =>
                                /\ User_is_anonymous(u)
                                /\ u.active
                                /\ User__bool__(u) = TRUE
                                /\ u # User_anonymous
          /\ (last'.op = "from_dict" /\ last'.arg = NoArg) =>
              \A data \in Dicts :
                  FromDict(data) =>
                      IF "user_id" \notin DOMAIN data \/ "name" \notin DOMAIN data
                      THEN /\ last'.raised = "KeyError"
                           /\ heap' = heap
                      ELSE LET u == heap'[Len(heap')]
                           IN  /\ last'.raised = "none"
                               /\ Len(heap') = Len(heap) + 1
                               /\ u.user_id = TextAt(data, "user_id")
                               /\ u.name = TextAt(data, "name")
                               /\ u.active = IF "active" \in DOMAIN data
                                             THEN TruthAt(data, "active") ELSE TRUE]_vars

\* from_dict has just failed on a missing key, beside the active anonymous
\* user that create_from_data made from the empty dictionary.
C22_Witness ==
    /\ last.op = "from_dict"
    /\ last.raised = "KeyError"
    /\ \E o \in Refs :
          /\ User_is_anonymous(heap[o])
          /\ heap[o].name = Anonymous
          /\ User__bool__(heap[o]) = TRUE

----------------------------------------------------------------------------
(* More properties of unique_normalized *)

NoRepeats(s) == \A i, j \in 1..Len(s) : i # j => s[i] # s[j]

\* C23: unique_normalized is idempotent and never longer than its input:
\* called on the list an earlier unique_normalized call returned, it
\* returns that list; for a list of strings its result is at most as long
\* as the list, and is the list normalize_names returns exactly when that
\* list has no value twice.
C23_UniqueIdempotentAndShort ==
    (fn = "unique_normalized" /\ AllStr(names)) =>
        /\ outcome.returned
        /\ names_from = "unique_normalized" => outcome.ret = names
        /\ Len(outcome.ret) <= Len(names)
        /\ LET normalized == normalize_names(names)
           IN  /\ normalized.returned
               /\ (outcome.ret = normalized.ret) <=> NoRepeats(normalized.ret)

\* unique_normalized called on the two names it returned before.
C23_Witness ==
    /\ fn = "unique_normalized"
    /\ names_from = "unique_normalized"
    /\ Len(names) = 2
    /\ outcome.returned
    /\ outcome.ret = names

----------------------------------------------------------------------------
(* Properties of the read-only calls *)

\* The step is a call of a name helper / of get_all_names.
HelperCalled == <<fn, outcome>>' # <<fn, outcome>>
ListingCalled == last'.op = "get_all_names" /\ last' # last

====
